---- MODULE Spec2Model ----
(***************************************************************************)
(* Model of co2meter_exporter: the frame decoder (decryptReading,          *)
(* isValidReading), the poll loop (getReadings), the shared environment    *)
(* state and its readers (logMetrics, the Prometheus gauges).              *)
(*                                                                         *)
(* The repository holds two implementations of the same program:           *)
(*   "rwmutex" : src/co2meter_exporter.go, envState guarded by one         *)
(*               sync.RWMutex, gauges set by logMetrics every 5 s;         *)
(*   "atomic"  : src/unnamed/part_000, two atomic.Int32, gauges that read  *)
(*               the atomics on every scrape (GaugeFunc).                  *)
(* The variable impl selects the implementation; it never changes.         *)
(*                                                                         *)
(* Bytes are naturals 0..255, frames and keys are functions 0..7 -> byte   *)
(* (the source's 0-based indices are kept).  Temperatures in degrees       *)
(* Celsius are held as integer hundredths of a degree.                     *)
(***************************************************************************)
EXTENDS Integers, Sequences, FiniteSets, TLC

\* ------------------------------------------------------------ byte helpers

FrameLen == 8

Idx == 0 .. (FrameLen - 1)

\* An 8-tuple written <<b0, ..., b7>> as a 0-based byte buffer.
Bytes(t) == [i \in Idx |-> t[i + 1]]

RECURSIVE XorN(_, _, _)
\* a ^ b on the low n bits.
XorN(a, b, n) ==
  IF n = 0 THEN 0
  ELSE (((a % 2) + (b % 2)) % 2) + 2 * XorN(a \div 2, b \div 2, n - 1)

RECURSIVE OrN(_, _, _)
\* a | b on the low n bits.
OrN(a, b, n) ==
  IF n = 0 THEN 0
  ELSE (IF a % 2 = 1 \/ b % 2 = 1 THEN 1 ELSE 0)
         + 2 * OrN(a \div 2, b \div 2, n - 1)

Xor(a, b) == XorN(a, b, 8)

Or(a, b) == OrN(a, b, 8)

\* x >> n on a byte.
Shr(x, n) == x \div (2 ^ n)

\* x << n on a byte: Go keeps the operand's type, the high bits fall off.
Shl(x, n) == (x * (2 ^ n)) % 256

\* ------------------------------------------------------------ FrameCodec

\* "Htemp99e"
cstate == Bytes(<<72, 116, 101, 109, 112, 57, 57, 101>>)

shuffle == Bytes(<<2, 4, 0, 7, 1, 6, 5, 3>>)

\* for i, j := range shuffle { phase1[j] = buffer[i] }
Phase1(buffer) == [j \in Idx |-> buffer[CHOOSE i \in Idx : shuffle[i] = j]]

Phase2(phase1, k) == [i \in Idx |-> Xor(phase1[i], k[i])]

\* Variant: each byte rotated on its own, no bits taken from its neighbour.
Phase3NoCarry(phase2) ==
  [i \in Idx |-> Or(Shr(phase2[i], 3), Shl(phase2[i], 5)) % 256]

Phase3(phase2) ==
  [i \in Idx |-> Or(Shr(phase2[i], 3), Shl(phase2[(i - 1 + 8) % 8], 5)) % 256]

\* Variant: the constant is subtracted as it is, without the nibble swap.
ctmpPlain == cstate

\* ctmp[i] = ((cstate[i] >> 4) | (cstate[i] << 4)) & 0xff
ctmp == [i \in Idx |-> Or(Shr(cstate[i], 4), Shl(cstate[i], 4)) % 256]

PhaseOut(phase3) == [i \in Idx |-> (256 + phase3[i] - ctmp[i]) % 256]

decryptReading(buffer, k) == PhaseOut(Phase3(Phase2(Phase1(buffer), k)))

\* Variant: the terminator is not looked at.
isValidReadingSumOnly(buffer) ==
  ~ (((buffer[0] + buffer[1] + buffer[2]) % 256) # buffer[3])

\* Variant: the sum taken in a wider type and compared without wrapping.
isValidReadingNoWrap(buffer) ==
  ~ (buffer[4] # 13 \/ (buffer[0] + buffer[1] + buffer[2]) # buffer[3])

\* buffer[0]+buffer[1]+buffer[2] is byte arithmetic in Go: it wraps at 256.
isValidReading(buffer) ==
  ~ (buffer[4] # 13 \/ ((buffer[0] + buffer[1] + buffer[2]) % 256) # buffer[3])

\* binary.BigEndian.Uint16(b[1:3])
\* Variant: the value read low byte first.
Uint16LittleEndian(buffer) == buffer[2] * 256 + buffer[1]

Uint16(buffer) == buffer[1] * 256 + buffer[2]

\* The device's side of the protocol, the inverse of decryptReading: add the
\* nibble-swapped constant, rotate the 64-bit block left by 3 (each byte takes
\* its low bits from the top of the next one, circularly), XOR with the key,
\* shuffle.
DeviceAdd(f) == [i \in Idx |-> (f[i] + ctmp[i]) % 256]

DeviceRotate(p3) ==
  [i \in Idx |-> Or(Shl(p3[i], 3), Shr(p3[(i + 1) % 8], 5))]

DeviceXor(p2, k) == [i \in Idx |-> Xor(p2[i], k[i])]

DeviceShuffle(p1) == [i \in Idx |-> p1[shuffle[i]]]

DeviceEncode(f, k) == DeviceShuffle(DeviceXor(DeviceRotate(DeviceAdd(f)), k))

\* ------------------------------------------------------------ ReadingExtractor

CodeCo2 == 80

CodeTemperature == 66

\* math.Round((float64(raw)/16.0-273.15)*100), in hundredths of a degree.
\* The exact value is q = (625*raw - 2731500)/100.  Off a tie the float64
\* computation yields the nearest integer.  On a tie (raw % 4 = 2) the float64
\* constant 273.15 lies just below the decimal one, so the product lands just
\* above the tie and math.Round gives ceil(q); for raw in 20758..25338 the
\* rounding of the product goes the other way and math.Round gives floor(q).
Celsius(raw) ==
  LET n == 625 * raw - 2731500
  IN  IF raw % 4 = 2 /\ raw >= 20758 /\ raw <= 25338
      THEN n \div 100
      ELSE (n + 50) \div 100

\* ------------------------------------------------------------ inputs

\* Session keys rand.Read may produce.
Keys ==
  { Bytes(<<1, 2, 3, 4, 5, 6, 7, 8>>),
    Bytes(<<165, 60, 255, 0, 129, 126, 16, 239>>) }

\* Frames in plaintext layout: kind, value (big endian), checksum, terminator.
FrameCo2 == Bytes(<<80, 2, 15, 97, 13, 0, 0, 0>>)        \* CO2 527

FrameCo2Wrap == Bytes(<<80, 4, 176, 4, 13, 0, 0, 0>>)    \* CO2 1200, sum 0x104

FrameTemp == Bytes(<<66, 18, 57, 141, 13, 0, 0, 0>>)     \* raw 4665, 18.41 C

FrameOther == Bytes(<<65, 0, 16, 81, 13, 0, 0, 0>>)      \* kind 0x41

FrameBadSum == Bytes(<<80, 2, 15, 170, 187, 1, 2, 3>>)   \* CO2 527, bytes 3.. garbage

FrameBadEnd == Bytes(<<66, 18, 192, 20, 10, 0, 0, 0>>)   \* raw 4800, terminator wrong

PlainFrames ==
  { FrameCo2, FrameCo2Wrap, FrameTemp, FrameOther, FrameBadSum, FrameBadEnd }

\* What the device stream can deliver.  A device that obfuscates sends frames
\* obfuscated under the key it was armed with; one that does not sends them in
\* plaintext.  Either kind of device can meet either setting of the flag.
ObfuscatedFrames(k) == { DeviceEncode(f, k) : f \in PlainFrames }

RawFrames(skip, k) ==
  IF skip THEN PlainFrames \cup {DeviceEncode(FrameCo2, k)}
  ELSE ObfuscatedFrames(k) \cup {FrameCo2}

\* Frames the device delivers in one run of the model.
MaxFrames == 2

\* Bytes io.ReadFull may have stored when it fails (0: error or EOF at once,
\* more: io.ErrUnexpectedEOF or an error after a partial read).
ShortReads == {0, 3}

\* Byte counts of a Read that returns less than a frame.
PartReads == {5}

\* The bytes a failing read delivers come from the head of this frame.
ShortFrame == Bytes(<<66, 19, 136, 221, 13, 0, 0, 0>>)

ZeroFrame == [i \in Idx |-> 0]

\* In the history variables: no frame of the kind yet.
NoReading == 0 - 1

\* Inputs for the pure functions: frames in plaintext layout built from a kind,
\* a value, a checksum that is right or off by one, a terminator and the three
\* reserved bytes.
MkFrame(kind, hi, lo, off, term, tail) ==
  [i \in Idx |->
     IF i = 0 THEN kind
     ELSE IF i = 1 THEN hi
     ELSE IF i = 2 THEN lo
     ELSE IF i = 3 THEN (kind + hi + lo + off) % 256
     ELSE IF i = 4 THEN term
     ELSE tail[i - 4]]

CodecFrames ==
  { MkFrame(kind, hi, lo, off, term, tail) :
      kind \in {80, 66, 255}, hi \in {0, 2, 255}, lo \in {15, 240},
      off \in {0, 1}, term \in {13, 10}, tail \in {<<0, 0, 0>>, <<255, 1, 128>>} }

CodecKeys == Keys \cup {ZeroFrame, [i \in Idx |-> 255]}

\* No test vector: the value of tv while the program runs.
NoVector ==
  [stage |-> "none", frame |-> ZeroFrame, key |-> ZeroFrame, wire |-> ZeroFrame,
   out |-> ZeroFrame, valid |-> FALSE, raw |-> 0, celsius |-> 0]

\* Raw 16-bit temperature values: the lowest and the highest, the values around
\* 0 degrees Celsius, around 18.41 degrees and around the point where the
\* float64 product changes its rounding direction.
RawTemps ==
  (0 .. 7) \cup (4362 .. 4378) \cup (4660 .. 4670) \cup (20750 .. 20765)
    \cup (25330 .. 25345) \cup (65528 .. 65535)

\* ------------------------------------------------------------ state

VARIABLES
  impl,            \* "rwmutex" (co2meter_exporter.go) or "atomic" (part_000)
  skipDecryption,  \* *skipDecryptionFlag
  quiet,           \* *quietFlag (part_000 only)
  tv,              \* a test vector for the pure functions (SpecCodec only)
  proc,            \* "running", or "failed" after log.Fatal
  mpc,             \* main: "open", "rand", "hidSetReport", "goRead", "goLog", "serve"
  key,             \* main's key [8]byte
  deviceKey,       \* the key the device received in the feature report, or ZeroFrame with armed = FALSE
  armed,           \* the SET_REPORT ioctl succeeded
  ppc,             \* getReadings: "off", "read", "decode", "dispatch", "setLock",
                   \*   "setWait", "setStore", "setUnlock", "sleep", "stopped"
  buffer,          \* getReadings' buffer
  code,            \* getReadings' code
  value,           \* getReadings' value
  nread,           \* frames io.ReadFull has delivered
  got,             \* bytes of the current io.ReadFull call that are in the buffer
  co2,             \* envState.co2 / atomic co2
  temperature,     \* envState.temperature, hundredths of a degree (rwmutex)
  raw_temperature, \* atomic raw_temperature (atomic)
  rw,              \* envState's RWMutex: writer "free", "pending", "held"; readers holding
  lpc,             \* logMetrics: "off", "register", "sleep", "co2RLock", "co2Load",
                   \*   "co2RUnlock", "tRLock", "tLoad", "tRUnlock", "log", "gaugeCo2", "gaugeT"
  lco2,            \* logMetrics' co2
  lt,              \* logMetrics' t
  co2Gauge,        \* the Prometheus gauge values (rwmutex)
  temperatureGauge,
  scraped,         \* the last sample a scrape collected: metric and value
  latest,          \* history: raw value of the latest frame read of each kind whose
                   \*   plaintext has terminator 0x0D and a matching checksum
  before,          \* history: latest before the frame now being processed was read
  dispatched       \* history: a frame of the kind has reached the dispatch switch

vars ==
  << impl, skipDecryption, quiet, tv, proc, mpc, key, deviceKey, armed, ppc, buffer,
     code, value, nread, got, co2, temperature, raw_temperature, rw, lpc, lco2, lt,
     co2Gauge, temperatureGauge, scraped, latest, before, dispatched >>

configVars == << impl, skipDecryption, quiet, tv >>

mainVars == << mpc, key, deviceKey, armed >>

pollVars == << ppc, buffer, code, value, nread, got >>

stateVars == << co2, temperature, raw_temperature >>

logVars == << lpc, lco2, lt >>

gaugeVars == << co2Gauge, temperatureGauge >>

histVars == << latest, before, dispatched >>

Running == proc = "running"

\* The process as main finds it.
InitProcess ==
  /\ proc = "running"
  /\ mpc = "open"
  /\ key = ZeroFrame
  /\ deviceKey = ZeroFrame
  /\ armed = FALSE
  /\ ppc = "off"
  /\ buffer = ZeroFrame
  /\ code = 0
  /\ value = 0
  /\ nread = 0
  /\ got = 0
  /\ co2 = 0
  /\ temperature = 0
  /\ raw_temperature = 0
  /\ rw = [writer |-> "free", readers |-> 0]
  /\ lpc = "off"
  /\ lco2 = 0
  /\ lt = 0
  /\ co2Gauge = 0
  /\ temperatureGauge = 0
  /\ scraped = [metric |-> "none", value |-> 0]
  /\ latest = [co2 |-> NoReading, t |-> NoReading]
  /\ before = [co2 |-> NoReading, t |-> NoReading]
  /\ dispatched = [co2 |-> FALSE, t |-> FALSE]

Init ==
  /\ impl \in {"rwmutex", "atomic"}
  /\ skipDecryption \in BOOLEAN
  /\ quiet \in (IF impl = "atomic" THEN BOOLEAN ELSE {FALSE})
  /\ tv = NoVector
  /\ InitProcess

\* ------------------------------------------------------------ main

\* flag check and os.OpenFile: both failures end in log.Fatal.
MainOpen ==
  /\ Running /\ mpc = "open"
  /\ \/ mpc' = "rand" /\ proc' = proc
     \/ proc' = "failed" /\ mpc' = mpc
  /\ UNCHANGED << configVars, key, deviceKey, armed, pollVars, stateVars, rw,
                  logVars, gaugeVars, scraped, histVars >>

\* rand.Read(key[:])
MainRand ==
  /\ Running /\ mpc = "rand"
  /\ key' \in Keys
  /\ mpc' = "hidSetReport"
  /\ UNCHANGED << configVars, proc, deviceKey, armed, pollVars, stateVars, rw,
                  logVars, gaugeVars, scraped, histVars >>

\* Variant: the key is copied to the start of the report.
ReportNoId(k) == [i \in 0 .. FrameLen |-> IF i < FrameLen THEN k[i] ELSE 0]

\* The 9-byte feature report: report ID 0, then the key.
Report(k) == [i \in 0 .. FrameLen |-> IF i = 0 THEN 0 ELSE k[i - 1]]

\* Variant: errno is not looked at.
hidSetReportUnchecked ==
  /\ Running /\ mpc = "hidSetReport"
  /\ \/ /\ deviceKey' = [i \in Idx |-> Report(key)[i + 1]]
        /\ armed' = TRUE
     \/ UNCHANGED << deviceKey, armed >>
  /\ mpc' = "goRead"
  /\ UNCHANGED << configVars, proc, key, pollVars, stateVars, rw, logVars,
                  gaugeVars, scraped, histVars >>

\* hidSetReport: the ioctl succeeds and the device holds the key, or it fails
\* and log.Fatal ends the process.
hidSetReport ==
  /\ Running /\ mpc = "hidSetReport"
  /\ \/ /\ deviceKey' = [i \in Idx |-> Report(key)[i + 1]]
        /\ armed' = TRUE
        /\ mpc' = "goRead"
        /\ proc' = proc
     \/ /\ proc' = "failed"
        /\ UNCHANGED << deviceKey, armed, mpc >>
  /\ UNCHANGED << configVars, key, pollVars, stateVars, rw, logVars, gaugeVars,
                  scraped, histVars >>

\* go getReadings(...)
MainGoReadings ==
  /\ Running /\ mpc = "goRead"
  /\ ppc' = "read"
  /\ mpc' = "goLog"
  /\ UNCHANGED << configVars, proc, key, deviceKey, armed, buffer, code, value,
                  nread, got, stateVars, rw, logVars, gaugeVars, scraped, histVars >>

\* go logMetrics(...); the rwmutex variant registers its gauges in logMetrics,
\* the atomic variant has registered them in main already.
MainGoLogMetrics ==
  /\ Running /\ mpc = "goLog"
  /\ lpc' = (IF impl = "rwmutex" THEN "register" ELSE "sleep")
  /\ mpc' = "serve"
  /\ UNCHANGED << configVars, proc, key, deviceKey, armed, pollVars, stateVars,
                  rw, lco2, lt, gaugeVars, scraped, histVars >>

\* ------------------------------------------------------------ getReadings

\* The frame as the dispatch step will see it.
Plain(f) == IF skipDecryption THEN f ELSE decryptReading(f, key)

\* Terminator and checksum of a plaintext frame, as the protocol defines them.
WellFormed(f) == f[4] = 13 /\ (f[0] + f[1] + f[2]) % 256 = f[3]

Record(l, f) ==
  IF ~ WellFormed(f) THEN l
  ELSE IF f[0] = CodeCo2 THEN [l EXCEPT !.co2 = f[1] * 256 + f[2]]
  ELSE IF f[0] = CodeTemperature THEN [l EXCEPT !.t = f[1] * 256 + f[2]]
  ELSE l

\* The frames the device may be sending, given the bytes of the current read
\* that are in the buffer already.
Arriving ==
  { f \in RawFrames(skipDecryption, key) : \A i \in Idx : i < got => f[i] = buffer[i] }

\* Variant: a single source.Read in place of io.ReadFull, its short count is
\* taken for a frame.
ReadPartAccepted ==
  /\ Running /\ ppc = "read"
  /\ nread < MaxFrames
  /\ got = 0
  /\ \E f \in Arriving, n \in PartReads :
       buffer' = [i \in Idx |-> IF i < n THEN f[i] ELSE buffer[i]]
  /\ ppc' = "decode"
  /\ UNCHANGED << configVars, proc, mainVars, code, value, nread, got, stateVars,
                  rw, logVars, gaugeVars, scraped, histVars >>

\* Inside io.ReadFull: source.Read returned fewer bytes than are missing.  They
\* are in the buffer, in front of what is left of the previous frame, and
\* io.ReadFull calls Read again.
ReadPart ==
  /\ Running /\ ppc = "read"
  /\ nread < MaxFrames
  /\ got = 0
  /\ \E f \in Arriving, n \in PartReads :
       /\ buffer' = [i \in Idx |-> IF i < n THEN f[i] ELSE buffer[i]]
       /\ got' = n
  /\ UNCHANGED << configVars, proc, mainVars, ppc, code, value, nread, stateVars,
                  rw, logVars, gaugeVars, scraped, histVars >>

\* io.ReadFull returned 8 bytes.
ReadFull ==
  /\ Running /\ ppc = "read"
  /\ nread < MaxFrames
  /\ \E f \in Arriving :
       /\ buffer' = f
       /\ latest' = Record(latest, Plain(f))
  /\ before' = latest
  /\ nread' = nread + 1
  /\ got' = 0
  /\ ppc' = "decode"
  /\ UNCHANGED << configVars, proc, mainVars, code, value, stateVars, rw,
                  logVars, gaugeVars, scraped, dispatched >>

\* Variant: the error is dropped and the buffer is processed as it is.
ReadFailIgnored ==
  /\ Running /\ ppc = "read"
  /\ \E n \in ShortReads :
       buffer' = [i \in Idx |-> IF i < n THEN ShortFrame[i] ELSE buffer[i]]
  /\ ppc' = "decode"
  /\ UNCHANGED << configVars, proc, mainVars, code, value, nread, got, stateVars, rw,
                  logVars, gaugeVars, scraped, histVars >>

\* io.ReadFull returned an error: log.Fatal.  The error came after n bytes of
\* the call's first Read, or from the Read that followed a short one.
ReadFail ==
  /\ Running /\ ppc = "read"
  /\ \E n \in ShortReads :
       buffer' = [i \in Idx |-> IF got = 0 /\ i < n THEN ShortFrame[i] ELSE buffer[i]]
  /\ proc' = "failed"
  /\ UNCHANGED << configVars, mainVars, ppc, code, value, nread, got, stateVars, rw,
                  logVars, gaugeVars, scraped, histVars >>

\* Variant: the validity check is applied to the raw frame when decryption is
\* skipped.
DecodeChecked ==
  /\ Running /\ ppc = "decode"
  /\ LET decrypted == IF skipDecryption THEN buffer ELSE decryptReading(buffer, key)
     IN  IF ~ isValidReading(decrypted)
         THEN /\ ppc' = "stopped"
              /\ UNCHANGED << code, value >>
         ELSE /\ code' = decrypted[0]
              /\ value' = Uint16(decrypted)
              /\ ppc' = "dispatch"
  /\ UNCHANGED << configVars, proc, mainVars, buffer, nread, got, stateVars, rw,
                  logVars, gaugeVars, scraped, histVars >>

\* The if skipDecryption {...} else {...} block.
Decode ==
  /\ Running /\ ppc = "decode"
  /\ IF skipDecryption
     THEN /\ code' = buffer[0]
          /\ value' = Uint16(buffer)
          /\ ppc' = "dispatch"
     ELSE LET decrypted == decryptReading(buffer, key)
          IN  IF ~ isValidReading(decrypted)
              THEN /\ ppc' = "stopped"
                   /\ UNCHANGED << code, value >>
              ELSE /\ code' = decrypted[0]
                   /\ value' = Uint16(decrypted)
                   /\ ppc' = "dispatch"
  /\ UNCHANGED << configVars, proc, mainVars, buffer, nread, got, stateVars, rw,
                  logVars, gaugeVars, scraped, histVars >>

\* Variant: a default branch in place of case 0x42.
KindOfLoose(c) == IF c = CodeCo2 THEN "co2" ELSE "t"

\* The cases of the switch.
KindOf(c) ==
  IF c = CodeCo2 THEN "co2"
  ELSE IF c = CodeTemperature THEN "t"
  ELSE "none"

\* Variant: a frame of unknown kind goes straight to the next read.
DispatchContinue ==
  /\ Running /\ ppc = "dispatch"
  /\ IF KindOf(code) = "co2"
     THEN /\ dispatched' = [dispatched EXCEPT !.co2 = TRUE]
          /\ IF impl = "atomic"
             THEN co2' = value /\ ppc' = "sleep"
             ELSE co2' = co2 /\ ppc' = "setLock"
          /\ UNCHANGED raw_temperature
     ELSE IF KindOf(code) = "t"
     THEN /\ dispatched' = [dispatched EXCEPT !.t = TRUE]
          /\ IF impl = "atomic"
             THEN raw_temperature' = value /\ ppc' = "sleep"
             ELSE raw_temperature' = raw_temperature /\ ppc' = "setLock"
          /\ UNCHANGED co2
     ELSE /\ ppc' = "read"
          /\ UNCHANGED << co2, raw_temperature, dispatched >>
  /\ UNCHANGED << configVars, proc, mainVars, buffer, code, value, nread, got, temperature,
                  rw, logVars, gaugeVars, scraped, latest, before >>

\* The switch: the atomic variant stores at once, the rwmutex variant enters
\* setCo2 / setTemperature.
Dispatch ==
  /\ Running /\ ppc = "dispatch"
  /\ IF KindOf(code) = "co2"
     THEN /\ dispatched' = [dispatched EXCEPT !.co2 = TRUE]
          /\ IF impl = "atomic"
             THEN co2' = value /\ ppc' = "sleep"
             ELSE co2' = co2 /\ ppc' = "setLock"
          /\ UNCHANGED raw_temperature
     ELSE IF KindOf(code) = "t"
     THEN /\ dispatched' = [dispatched EXCEPT !.t = TRUE]
          /\ IF impl = "atomic"
             THEN raw_temperature' = value /\ ppc' = "sleep"
             ELSE raw_temperature' = raw_temperature /\ ppc' = "setLock"
          /\ UNCHANGED co2
     ELSE /\ ppc' = "sleep"
          /\ UNCHANGED << co2, raw_temperature, dispatched >>
  /\ UNCHANGED << configVars, proc, mainVars, buffer, code, value, nread, got, temperature,
                  rw, logVars, gaugeVars, scraped, latest, before >>

\* s.Lock(): the writer announces itself, which holds off new readers ...
SetLock ==
  /\ Running /\ ppc = "setLock"
  /\ rw' = [rw EXCEPT !.writer = "pending"]
  /\ ppc' = "setWait"
  /\ UNCHANGED << configVars, proc, mainVars, buffer, code, value, nread, got, stateVars,
                  logVars, gaugeVars, scraped, histVars >>

\* Variant: the writer does not wait for the readers.
WriterMayEnterAtOnce == TRUE

\* ... and proceeds once the readers that hold the lock have released it.
WriterMayEnter == rw.readers = 0

SetAcquire ==
  /\ Running /\ ppc = "setWait"
  /\ WriterMayEnter
  /\ rw' = [rw EXCEPT !.writer = "held"]
  /\ ppc' = "setStore"
  /\ UNCHANGED << configVars, proc, mainVars, buffer, code, value, nread, got, stateVars,
                  logVars, gaugeVars, scraped, histVars >>

\* s.co2 = co2 / s.temperature = temperature
SetStore ==
  /\ Running /\ ppc = "setStore"
  /\ IF KindOf(code) = "co2"
     THEN co2' = value /\ UNCHANGED temperature
     ELSE temperature' = Celsius(value) /\ UNCHANGED co2
  /\ ppc' = "setUnlock"
  /\ UNCHANGED << configVars, proc, mainVars, buffer, code, value, nread, got,
                  raw_temperature, rw, logVars, gaugeVars, scraped, histVars >>

\* Variant: the setter returns with the lock held.
SetUnlockMissing ==
  /\ Running /\ ppc = "setUnlock"
  /\ rw' = rw
  /\ ppc' = "sleep"
  /\ UNCHANGED << configVars, proc, mainVars, buffer, code, value, nread, got, stateVars,
                  logVars, gaugeVars, scraped, histVars >>

\* defer s.Unlock()
SetUnlock ==
  /\ Running /\ ppc = "setUnlock"
  /\ rw' = [rw EXCEPT !.writer = "free"]
  /\ ppc' = "sleep"
  /\ UNCHANGED << configVars, proc, mainVars, buffer, code, value, nread, got, stateVars,
                  logVars, gaugeVars, scraped, histVars >>

\* time.Sleep(readingInterval); code and value are declared anew per iteration.
Sleep ==
  /\ Running /\ ppc = "sleep"
  /\ ppc' = "read"
  /\ code' = 0
  /\ value' = 0
  /\ UNCHANGED << configVars, proc, mainVars, buffer, nread, got, stateVars, rw,
                  logVars, gaugeVars, scraped, histVars >>

\* ------------------------------------------------------------ envState getters

\* RLock: a reader enters unless a writer holds the lock or waits for it.
ReaderMayEnter == rw.writer = "free"

\* The value setCo2 / setTemperature is writing.
SetterField == KindOf(code)

SetterArg == IF KindOf(code) = "co2" THEN value ELSE Celsius(value)

\* Some bytes of one word and some of another.
Mix(a, b) == (a \div 256) * 256 + (b % 256)

\* What a plain (non-atomic) load of a field returns.  Under the lock it is the
\* field.  A load that runs while the writer is inside its critical section on
\* the same field is a data race: old, new or torn.
LoadField(field, cur) ==
  IF rw.writer = "held" /\ SetterField = field
  THEN {cur, SetterArg, Mix(cur, SetterArg), Mix(SetterArg, cur)}
  ELSE {cur}

\* Co2() of part_000: float64(co2.Load())
Co2 == co2

\* Temperature() of part_000
Temperature == Celsius(raw_temperature)

\* ------------------------------------------------------------ logMetrics

\* prometheus.MustRegister of the two gauges (rwmutex variant).
LogRegister ==
  /\ Running /\ lpc = "register"
  /\ lpc' = "sleep"
  /\ UNCHANGED << configVars, proc, mainVars, pollVars, stateVars, rw, lco2, lt,
                  gaugeVars, scraped, histVars >>

\* time.Sleep(reportInterval) returns.  In quiet mode part_000 reads nothing.
LogWake ==
  /\ Running /\ lpc = "sleep"
  /\ lpc' = (IF impl = "rwmutex" THEN "co2RLock"
             ELSE IF quiet THEN "sleep" ELSE "co2Load")
  /\ UNCHANGED << configVars, proc, mainVars, pollVars, stateVars, rw, lco2, lt,
                  gaugeVars, scraped, histVars >>

\* s.RLock() in Co2() and Temperature()
LogRLock ==
  /\ Running /\ lpc \in {"co2RLock", "tRLock"}
  /\ ReaderMayEnter
  /\ rw' = [rw EXCEPT !.readers = @ + 1]
  /\ lpc' = (IF lpc = "co2RLock" THEN "co2Load" ELSE "tLoad")
  /\ UNCHANGED << configVars, proc, mainVars, pollVars, stateVars, lco2, lt,
                  gaugeVars, scraped, histVars >>

\* Variant: a getter that takes the value out of the state.
LogLoadCo2Clearing ==
  /\ Running /\ lpc = "co2Load"
  /\ lco2' = co2
  /\ co2' = 0
  /\ lpc' = (IF impl = "rwmutex" THEN "co2RUnlock" ELSE "tLoad")
  /\ UNCHANGED << configVars, proc, mainVars, pollVars, temperature,
                  raw_temperature, rw, lt, gaugeVars, scraped, histVars >>

\* return s.co2 / co2.Load()
LogLoadCo2 ==
  /\ Running /\ lpc = "co2Load"
  /\ IF impl = "rwmutex"
     THEN lco2' \in LoadField("co2", co2) /\ lpc' = "co2RUnlock"
     ELSE lco2' = Co2 /\ lpc' = "tLoad"
  /\ UNCHANGED << configVars, proc, mainVars, pollVars, stateVars, rw, lt,
                  gaugeVars, scraped, histVars >>

\* return s.temperature / the conversion of raw_temperature.Load()
LogLoadTemperature ==
  /\ Running /\ lpc = "tLoad"
  /\ IF impl = "rwmutex"
     THEN lt' \in LoadField("t", temperature) /\ lpc' = "tRUnlock"
     ELSE lt' = Temperature /\ lpc' = "log"
  /\ UNCHANGED << configVars, proc, mainVars, pollVars, stateVars, rw, lco2,
                  gaugeVars, scraped, histVars >>

\* defer s.RUnlock()
LogRUnlock ==
  /\ Running /\ lpc \in {"co2RUnlock", "tRUnlock"}
  /\ rw' = [rw EXCEPT !.readers = @ - 1]
  /\ lpc' = (IF lpc = "co2RUnlock" THEN "tRLock" ELSE "log")
  /\ UNCHANGED << configVars, proc, mainVars, pollVars, stateVars, lco2, lt,
                  gaugeVars, scraped, histVars >>

\* log.Printf; it ends the iteration in part_000, whose values go out of scope.
LogPrint ==
  /\ Running /\ lpc = "log"
  /\ IF impl = "rwmutex"
     THEN lpc' = "gaugeCo2" /\ UNCHANGED << lco2, lt >>
     ELSE lpc' = "sleep" /\ lco2' = 0 /\ lt' = 0
  /\ UNCHANGED << configVars, proc, mainVars, pollVars, stateVars, rw,
                  gaugeVars, scraped, histVars >>

\* co2Gauge.Set(float64(co2))
GaugeSetCo2 ==
  /\ Running /\ lpc = "gaugeCo2"
  /\ co2Gauge' = lco2
  /\ lpc' = "gaugeT"
  /\ UNCHANGED << configVars, proc, mainVars, pollVars, stateVars, rw, lco2, lt,
                  temperatureGauge, scraped, histVars >>

\* temperatureGauge.Set(t); the iteration ends, co2 and t go out of scope.
GaugeSetTemperature ==
  /\ Running /\ lpc = "gaugeT"
  /\ temperatureGauge' = lt
  /\ lpc' = "sleep"
  /\ lco2' = 0
  /\ lt' = 0
  /\ UNCHANGED << configVars, proc, mainVars, pollVars, stateVars, rw,
                  co2Gauge, scraped, histVars >>

\* ------------------------------------------------------------ metrics scrape

\* The gauges can be scraped once they are registered and the server listens.
Scrapable == mpc = "serve" /\ lpc \notin {"off", "register"}

\* Collecting co2meter_co2_ppms: the gauge's stored value (rwmutex) or a call
\* of Co2 (the GaugeFunc of part_000).
MetricCo2 == IF impl = "rwmutex" THEN co2Gauge ELSE Co2

\* Collecting co2meter_temperature_celsius.
MetricTemperature == IF impl = "rwmutex" THEN temperatureGauge ELSE Temperature

ScrapeCo2 ==
  /\ Running /\ Scrapable
  /\ scraped' = [metric |-> "co2", value |-> MetricCo2]
  /\ UNCHANGED << configVars, proc, mainVars, pollVars, stateVars, rw, logVars,
                  gaugeVars, histVars >>

ScrapeTemperature ==
  /\ Running /\ Scrapable
  /\ scraped' = [metric |-> "t", value |-> MetricTemperature]
  /\ UNCHANGED << configVars, proc, mainVars, pollVars, stateVars, rw, logVars,
                  gaugeVars, histVars >>

\* ------------------------------------------------------------ the pure functions

\* A frame and a key are drawn; the program itself does not run.
InitCodec ==
  /\ impl = "atomic"
  /\ skipDecryption = FALSE
  /\ quiet = FALSE
  /\ \/ \E f \in CodecFrames, k \in CodecKeys :
          tv = [NoVector EXCEPT !.stage = "input", !.frame = f, !.key = k]
     \/ \E raw \in RawTemps :
          tv = [NoVector EXCEPT !.stage = "raw", !.raw = raw]
  /\ InitProcess

processVars ==
  << proc, mainVars, pollVars, stateVars, rw, logVars, gaugeVars, scraped,
     histVars >>

\* isValidReading(frame)
CodecValidate ==
  /\ tv.stage = "input"
  /\ tv' = [tv EXCEPT !.stage = "validated", !.valid = isValidReading(tv.frame)]
  /\ UNCHANGED << impl, skipDecryption, quiet, processVars >>

\* The device obfuscates the frame under the key.
CodecEncode ==
  /\ tv.stage = "validated"
  /\ tv' = [tv EXCEPT !.stage = "encoded", !.wire = DeviceEncode(tv.frame, tv.key)]
  /\ UNCHANGED << impl, skipDecryption, quiet, processVars >>

\* decryptReading(wire, key)
CodecDecode ==
  /\ tv.stage = "encoded"
  /\ tv' = [tv EXCEPT !.stage = "decoded", !.out = decryptReading(tv.wire, tv.key)]
  /\ UNCHANGED << impl, skipDecryption, quiet, processVars >>

\* The conversion getReadings applies to the value of a temperature frame.
CodecCelsius ==
  /\ tv.stage = "raw"
  /\ tv' = [tv EXCEPT !.stage = "converted", !.celsius = Celsius(tv.raw)]
  /\ UNCHANGED << impl, skipDecryption, quiet, processVars >>

NextCodec == CodecValidate \/ CodecEncode \/ CodecDecode \/ CodecCelsius

SpecCodec == InitCodec /\ [][NextCodec]_vars

\* ------------------------------------------------------------ specification

Next ==
  \/ MainOpen \/ MainRand \/ hidSetReport \/ MainGoReadings \/ MainGoLogMetrics
  \/ ReadPart \/ ReadFull \/ ReadFail \/ Decode \/ Dispatch
  \/ SetLock \/ SetAcquire \/ SetStore \/ SetUnlock \/ Sleep
  \/ LogRegister \/ LogWake \/ LogRLock \/ LogLoadCo2 \/ LogLoadTemperature
  \/ LogRUnlock \/ LogPrint \/ GaugeSetCo2 \/ GaugeSetTemperature
  \/ ScrapeCo2 \/ ScrapeTemperature

Spec == Init /\ [][Next]_vars

\* The steps of the getReadings goroutine that do not wait for the device.
PollStep ==
  Decode \/ Dispatch \/ SetLock \/ SetAcquire \/ SetStore \/ SetUnlock \/ Sleep

\* The steps of the logMetrics goroutine.
LogStep ==
  \/ LogRegister \/ LogWake \/ LogRLock \/ LogLoadCo2 \/ LogLoadTemperature
  \/ LogRUnlock \/ LogPrint \/ GaugeSetCo2 \/ GaugeSetTemperature

\* The device: a frame arrives or the read fails.
DeviceStep == ReadPart \/ ReadFull \/ ReadFail

\* main up to the start of the HTTP server.
MainStep ==
  MainOpen \/ MainRand \/ hidSetReport \/ MainGoReadings \/ MainGoLogMetrics

\* The program without metric scrapes, which take no part in the progress of
\* the goroutines: they read the gauges, or the atomics of part_000.
NextFair == MainStep \/ DeviceStep \/ PollStep \/ LogStep

\* The Go scheduler runs every goroutine that can run: a goroutine that stays
\* runnable takes its next step.  Nothing is assumed of the device or of main.
SpecFair == Init /\ [][NextFair]_vars /\ WF_vars(PollStep) /\ WF_vars(LogStep)

\* ============================================================ properties

\* What Temperature() returns for the committed state, in hundredths.
TemperatureView == IF impl = "rwmutex" THEN temperature ELSE Celsius(raw_temperature)

\* The temperature field as stored: Celsius in envState, raw in part_000.
FieldTemperature == IF impl = "rwmutex" THEN temperature ELSE raw_temperature

\* What the field holds for a raw temperature value.
Stored(raw) == IF impl = "rwmutex" THEN Celsius(raw) ELSE raw

ExpectCo2(l) == IF l.co2 = NoReading THEN 0 ELSE l.co2

ExpectTemperature(l) == IF l.t = NoReading THEN 0 ELSE Stored(l.t)

\* The poll loop is not in the middle of a frame.
AtRest == ppc \in {"off", "read", "sleep", "stopped"}

\* The poll loop is in the switch or in a setter.
InDispatch == ppc \in {"dispatch", "setLock", "setWait", "setStore", "setUnlock"}

\* The frame the switch is looking at.
FrameKind == Plain(buffer)[0]

FrameValue == Plain(buffer)[1] * 256 + Plain(buffer)[2]

\* ------------------------------------------------------------ C1

\* Each field is its initial value or the value of the latest frame of its
\* kind that passes the validity check: while a frame is being processed the
\* field is at the value before or after that frame, between frames it is at
\* the value after it.
TracksValidFrames ==
  /\ co2 \in {ExpectCo2(before), ExpectCo2(latest)}
  /\ FieldTemperature \in {ExpectTemperature(before), ExpectTemperature(latest)}
  /\ AtRest => /\ co2 = ExpectCo2(latest)
               /\ FieldTemperature = ExpectTemperature(latest)

\* C1 as stated: in every reachable state, whatever frames were read, each
\* field is its initial value or the value of the most recent frame of its kind
\* that passed the validity check; a frame failing the check changes nothing.
C1_Original == TracksValidFrames

\* C1 as amended: the same, for a process that runs with decryption enabled.
C1_Amended == ~ skipDecryption => TracksValidFrames

\* With decryption on, a second valid CO2 frame has replaced the first.
C1_Witness ==
  /\ ~ skipDecryption
  /\ ppc = "sleep"
  /\ nread = 2
  /\ before.co2 = 527
  /\ latest.co2 = 1200
  /\ co2 = 1200

\* ------------------------------------------------------------ C2

\* C2: for a frame in the switch, kind 0x50 writes the frame's value to the CO2
\* field and leaves temperature alone, kind 0x42 writes temperature and leaves
\* CO2 alone, any other kind leaves both alone; in each case the loop goes on
\* to its sleep and the process keeps running.
C2_KindDispatch ==
  [][ InDispatch =>
        /\ ppc' \in {"dispatch", "setLock", "setWait", "setStore", "setUnlock", "sleep"}
        /\ proc' = "running"
        /\ FrameKind = 80 =>
              /\ FieldTemperature' = FieldTemperature
              /\ co2' \in {co2, FrameValue}
              /\ ppc' = "sleep" => co2' = FrameValue
        /\ FrameKind = 66 =>
              /\ co2' = co2
              /\ FieldTemperature' \in {FieldTemperature, Stored(FrameValue)}
              /\ ppc' = "sleep" => FieldTemperature' = Stored(FrameValue)
        /\ FrameKind \notin {80, 66} =>
              /\ co2' = co2
              /\ FieldTemperature' = FieldTemperature
              /\ ppc' \in {"dispatch", "sleep"} ]_vars

\* A CO2 frame was dispatched after a temperature frame, whose value stands.
C2_Witness ==
  /\ ppc = "sleep"
  /\ Plain(buffer)[0] = 80
  /\ co2 = 527
  /\ latest.t = 4665
  /\ FieldTemperature = Stored(4665)

\* ------------------------------------------------------------ C3

\* A getter or a scrape returns in this step, and what it returns is the
\* committed value of the field.
ReadersSeeState ==
  /\ (lpc = "co2Load" /\ lpc' # lpc) => lco2' = co2
  /\ (lpc = "tLoad" /\ lpc' # lpc) => lt' = TemperatureView
  /\ scraped' # scraped =>
        scraped'.value = (IF scraped'.metric = "co2" THEN co2 ELSE TemperatureView)

\* The loop stops only on a frame that fails the check, with decryption on,
\* and stopping neither ends the process nor writes the state.
StopsQuietly ==
  (ppc' = "stopped" /\ ppc # "stopped") =>
    /\ ~ skipDecryption
    /\ ~ WellFormed(Plain(buffer))
    /\ proc' = "running"
    /\ UNCHANGED << co2, temperature, raw_temperature >>

\* Once stopped: no read, no write, the process lives on.
StaysFrozen ==
  ppc = "stopped" =>
    /\ ppc' = "stopped"
    /\ proc' = "running"
    /\ UNCHANGED << nread, buffer, co2, temperature, raw_temperature >>

\* C3 as stated: with decryption enabled a frame that fails the check stops
\* the poll loop and not the process; from then on nothing is read or written,
\* both fields keep their values, and the logger and the metrics surface go on
\* returning those values.
C3_SilentStop ==
  [][ /\ StopsQuietly
      /\ StaysFrozen
      /\ ppc = "stopped" => ReadersSeeState ]_vars

\* The part of C3 that does not involve what a scrape returns: the stop, the
\* freeze, and the getters of the state returning the frozen values.
C3_StopAndFreeze ==
  [][ /\ StopsQuietly
      /\ StaysFrozen
      /\ ppc = "stopped" =>
            /\ (lpc = "co2Load" /\ lpc' # lpc) => lco2' = co2
            /\ (lpc = "tLoad" /\ lpc' # lpc) => lt' = TemperatureView ]_vars

\* The loop has stopped after a reading was stored, and the logger has read it.
C3_Reached ==
  /\ ppc = "stopped"
  /\ proc = "running"
  /\ co2 = 527
  /\ lpc = "log"
  /\ lco2 = 527

\* ------------------------------------------------------------ C4

\* C4: a failed device read ends the process: the failing step writes nothing
\* to the state and starts no decode, only a full read of 8 bytes moves the
\* loop on, and once the process has failed no step of any kind is taken.
C4_ReadFailureFatal ==
  [][ /\ proc = "running"
      /\ (ppc = "read" /\ proc' = "failed") =>
            UNCHANGED << ppc, nread, code, value, co2, temperature, raw_temperature >>
      /\ (ppc = "read" /\ ppc' # "read") =>
            /\ ppc' = "decode"
            /\ nread' = nread + 1
            /\ proc' = "running"
      /\ (ppc = "read" /\ buffer' # buffer /\ nread' = nread) =>
            \/ proc' = "failed"
            \/ ppc' = "read" /\ got' > got /\ got' < FrameLen ]_vars

\* A read failed after three bytes, with a reading already stored.
C4_Witness ==
  /\ proc = "failed"
  /\ ppc = "read"
  /\ nread = 1
  /\ co2 = 527
  /\ buffer[0] = ShortFrame[0]
  /\ buffer[3] # ShortFrame[3]

\* ------------------------------------------------------------ C5

\* C5: under every interleaving of the poll loop's writes with the readers,
\* each value Co2() or Temperature() returns is the committed value of the
\* field at the moment of the read (the initial value or the last one a setter
\* stored), never a torn one.
C5_ReadsCommitted ==
  [][ /\ (lpc = "co2Load" /\ lpc' # lpc) => lco2' = co2
      /\ (lpc = "tLoad" /\ lpc' # lpc) => lt' = TemperatureView
      /\ (impl = "atomic" /\ scraped' # scraped) =>
            scraped'.value = (IF scraped'.metric = "co2" THEN co2 ELSE TemperatureView) ]_vars

\* The logger read CO2 under the read lock while the poll loop waits to store
\* another value.
C5_Witness ==
  /\ lpc = "co2RUnlock"
  /\ rw.readers = 1
  /\ rw.writer = "pending"
  /\ ppc = "setWait"
  /\ KindOf(code) = "co2"
  /\ value # co2
  /\ lco2 = co2
  /\ co2 = 527

\* ------------------------------------------------------------ C8

\* C8: with skipDecryption set the loop never stops on a frame, and every frame
\* is dispatched with kind = byte 0 and value = bytes 1-2 of the raw frame,
\* whatever bytes 3 and 4 are: after the dispatch the field of that kind holds
\* that value.
C8_SkipNoCheck ==
  skipDecryption =>
    /\ ppc # "stopped"
    /\ (InDispatch \/ ppc = "sleep") =>
          /\ code = buffer[0]
          /\ value = buffer[1] * 256 + buffer[2]
    /\ (ppc = "sleep" /\ buffer[0] = 80) => co2 = buffer[1] * 256 + buffer[2]
    /\ (ppc = "sleep" /\ buffer[0] = 66) =>
          FieldTemperature = Stored(buffer[1] * 256 + buffer[2])

\* The frame [0x50, 0x02, 0x0F, garbage] has set CO2 to 527.
C8_Witness ==
  /\ skipDecryption
  /\ ppc = "sleep"
  /\ buffer = FrameBadSum
  /\ ~ WellFormed(buffer)
  /\ co2 = 527

\* ------------------------------------------------------------ C9

\* C9 as stated: before a frame of the kind has been dispatched, every value
\* the logger or the metrics surface reads is 0.
C9_InitialZero ==
  /\ ~ dispatched.co2 =>
        /\ lco2 = 0
        /\ scraped.metric = "co2" => scraped.value = 0
  /\ ~ dispatched.t =>
        /\ lt = 0
        /\ scraped.metric = "t" => scraped.value = 0

\* ------------------------------------------------------------ C10

\* C10 as stated: whenever the metrics can be scraped, what a scrape returns
\* is the committed state of that moment.
C10_OnDemand ==
  (Running /\ Scrapable) =>
    /\ MetricCo2 = co2
    /\ MetricTemperature = TemperatureView

\* ------------------------------------------------------------ C6

\* C6: for every 8-byte frame, isValidReading is true exactly when byte 4 is
\* 0x0D and (byte0 + byte1 + byte2) mod 256 equals byte 3; a sum above 255
\* wraps before the comparison.
C6_ValidIff ==
  tv.stage \in {"validated", "encoded", "decoded"} =>
    (tv.valid <=>
       (tv.frame[4] = 13
          /\ (tv.frame[0] + tv.frame[1] + tv.frame[2]) % 256 = tv.frame[3]))

\* A frame whose sum exceeds 255 has been accepted.
C6_Witness ==
  /\ tv.stage = "validated"
  /\ tv.valid
  /\ tv.frame[0] + tv.frame[1] + tv.frame[2] > 255

\* ------------------------------------------------------------ C7

\* C7: a frame with valid checksum and terminator, obfuscated by the device
\* under a key and decoded with decryptReading under the same key, comes back
\* byte for byte.
C7_RoundTrip ==
  (tv.stage = "decoded" /\ WellFormed(tv.frame)) => tv.out = tv.frame

\* A valid frame with non-zero reserved bytes went through a non-trivial key.
C7_Witness ==
  /\ tv.stage = "decoded"
  /\ WellFormed(tv.frame)
  /\ tv.key = Bytes(<<165, 60, 255, 0, 129, 126, 16, 239>>)
  /\ tv.frame[7] = 128
  /\ tv.wire # tv.frame
  /\ tv.out = tv.frame

\* ------------------------------------------------------------ C11

\* round(n / 100) with halves rounded away from zero.
RoundHalfAway(n) ==
  LET a == IF n < 0 THEN 0 - n ELSE n
      q == (2 * a + 100) \div 200
  IN  IF n < 0 THEN 0 - q ELSE q

\* C11: for every raw 16-bit temperature value, the Celsius value of a
\* dispatched temperature frame is (625*raw - 2731500)/100 hundredths of a
\* degree rounded to the nearest integer, halves away from zero; raw 4665
\* gives 18.41.
C11_HalfAwayFromZero ==
  tv.stage = "converted" =>
    /\ tv.celsius = RoundHalfAway(625 * tv.raw - 2731500)
    /\ (tv.raw = 4665 => tv.celsius = 1841)

\* ------------------------------------------------------------ C12

\* The key {0x01, ..., 0x08}.
C12_Key == Bytes(<<1, 2, 3, 4, 5, 6, 7, 8>>)

\* The frame the device sends for CO2 527 under that key.
C12_Wire == Bytes(<<42, 161, 163, 190, 73, 157, 154, 188>>)

\* The poll loop works on that frame: between its read and the next one.
C12_InCycle ==
  /\ ~ skipDecryption
  /\ key = C12_Key
  /\ buffer = C12_Wire
  /\ ppc \notin {"off", "read"}

\* C12: with key {1..8} and decryption enabled, a cycle of the poll loop on the
\* obfuscated frame of kind 0x50 and value 527 leaves Co2() = 527 and the
\* temperature as it was before the cycle, and the loop goes on to the next
\* read.
C12_Step ==
  C12_InCycle =>
    /\ C12_Wire = DeviceEncode(FrameCo2, C12_Key)
    /\ ppc # "stopped"
    /\ temperature' = temperature
    /\ raw_temperature' = raw_temperature
    /\ Temperature' = Temperature
    /\ ppc' # "stopped"
    /\ proc' = proc
    /\ (ppc = "sleep" => Co2 = 527)
    /\ (ppc = "sleep" /\ ppc' # ppc => ppc' = "read" /\ Co2' = 527)

C12_EndToEnd == [][C12_Step]_vars

\* The cycle has run on the frame after an earlier temperature frame: the CO2
\* value is 527 and the temperature is the one of that earlier frame.
C12_Witness ==
  /\ C12_InCycle
  /\ ppc = "sleep"
  /\ nread = 2
  /\ dispatched.t
  /\ co2 = 527
  /\ TemperatureView = Celsius(Uint16(FrameTemp))

\* ------------------------------------------------------------ C13

\* Nothing has been read, decoded or written to the state.
C13_Untouched ==
  /\ ppc = "off"
  /\ nread = 0
  /\ buffer = ZeroFrame
  /\ code = 0 /\ value = 0
  /\ co2 = 0 /\ temperature = 0 /\ raw_temperature = 0
  /\ ~ dispatched.co2 /\ ~ dispatched.t

\* C13: the poll loop reads from the device only after the handshake (report
\* ID 0x00 followed by the 8 key bytes) has succeeded; when the device open or
\* the handshake fails, the process ends and nothing is ever read, decoded or
\* written to the state.
C13_Step ==
  /\ proc = "running"
  /\ (ppc' # "off" =>
        /\ armed'
        /\ Report(key')[0] = 0
        /\ \A i \in Idx : Report(key')[i + 1] = key'[i] /\ deviceKey'[i] = key'[i]
        /\ mpc' \notin {"open", "rand", "hidSetReport"})
  /\ (mpc' \in {"open", "rand", "hidSetReport"} => C13_Untouched')
  /\ (proc' = "failed" /\ ppc' = "off" => mpc' \in {"open", "hidSetReport"} /\ ~ armed')

C13_ReadAfterHandshake == [][C13_Step]_vars

\* The first frame has been read, after a handshake that gave the device the
\* key.
C13_Witness ==
  /\ ppc = "decode"
  /\ nread = 1
  /\ armed
  /\ deviceKey = key
  /\ key = Bytes(<<165, 60, 255, 0, 129, 126, 16, 239>>)

\* The handshake has failed: the process is over and nothing has happened.
C13_Failed ==
  /\ proc = "failed"
  /\ mpc = "hidSetReport"
  /\ C13_Untouched

\* ------------------------------------------------------------ C14

\* A step of logMetrics or of a metrics scrape.
C14_ReaderStep ==
  \/ logVars' # logVars
  \/ gaugeVars' # gaugeVars
  \/ scraped' # scraped
  \/ rw'.readers # rw.readers

\* A write to the state is in progress: the poll loop is inside a setter.
C14_Writing == rw.writer # "free"

\* C14: only the poll loop writes the state: a step that changes the CO2 or
\* the temperature field is a step of the poll loop at its store, no step of
\* the logger or of a scrape changes a field, and at most one write is in
\* progress at any time.
C14_Step ==
  /\ (stateVars' # stateVars =>
        /\ ppc \in {"dispatch", "setStore"}
        /\ ppc' # ppc
        /\ ~ C14_ReaderStep
        /\ (co2' = co2 \/ (temperature' = temperature /\ raw_temperature' = raw_temperature)))
  /\ (C14_ReaderStep => stateVars' = stateVars /\ pollVars' = pollVars)
  /\ (C14_Writing <=> impl = "rwmutex" /\ ppc \in {"setWait", "setStore", "setUnlock"})
  /\ (rw.writer = "held" <=> impl = "rwmutex" /\ ppc \in {"setStore", "setUnlock"})

C14_SingleWriter == [][C14_Step]_vars

\* The poll loop has written 527 inside setCo2 while the logger is in its
\* iteration with the value it read before the write.
C14_Witness ==
  /\ impl = "rwmutex"
  /\ ppc = "setUnlock"
  /\ rw.writer = "held"
  /\ co2 = 527
  /\ lpc = "tRLock"
  /\ lco2 = 0

\* ------------------------------------------------------------ C15

\* The field a reader inside a getter has read access for.
C15_ReaderField ==
  IF lpc \in {"co2Load", "co2RUnlock"} THEN "co2"
  ELSE IF lpc \in {"tLoad", "tRUnlock"} THEN "t"
  ELSE "none"

\* C15: the two fields are synchronized independently and a writer never
\* waits for readers: in no reachable state is a setter of the poll loop
\* waiting while a reader holds read access, to the same field or to the
\* other one.
C15_WriterNeverWaits ==
  ~ (/\ ppc = "setWait"
     /\ rw.writer = "pending"
     /\ rw.readers > 0
     /\ C15_ReaderField \in {"co2", "t"}
     /\ ~ WriterMayEnter)

\* ------------------------------------------------------------ C16

\* The frame in the buffer passes the Decoding step.
C16_Decodable == skipDecryption \/ isValidReading(decryptReading(buffer, key))

\* Reading, Decoding, Dispatching (with the setter the rwmutex variant calls)
\* and Idle follow each other in that order.
C16_Order ==
  /\ (ppc = "read" /\ ppc' # ppc => ppc' = "decode" /\ nread' = nread + 1)
  /\ (ppc = "decode" /\ C16_Decodable => ppc' \in {"decode", "dispatch"})
  /\ (ppc = "dispatch" /\ ppc' # ppc =>
        ppc' = (IF impl = "rwmutex" /\ KindOf(code) # "none" THEN "setLock" ELSE "sleep"))
  /\ (ppc = "dispatch" /\ KindOf(code) = "none" => stateVars' = stateVars)
  /\ (ppc = "setLock" /\ ppc' # ppc => ppc' = "setWait")
  /\ (ppc = "setWait" /\ ppc' # ppc => ppc' = "setStore")
  /\ (ppc = "setStore" /\ ppc' # ppc => ppc' = "setUnlock")
  /\ (ppc = "setUnlock" /\ ppc' # ppc => ppc' = "sleep")
  /\ (ppc = "sleep" /\ ppc' # ppc => ppc' = "read")
  /\ (ppc' = "read" /\ ppc' # ppc => ppc \in {"off", "sleep"})
  /\ (ppc' = "stopped" /\ ppc' # ppc => ppc = "decode" /\ ~ C16_Decodable)
  /\ (nread' # nread => ppc = "read" /\ ppc' = "decode")
  /\ (ppc \notin {"off", "read"} => proc' = proc)

\* C16: while the reads succeed and the decoded frames are valid the poll loop
\* never stops: every frame goes through Reading, Decoding, Dispatching and
\* Idle in that order once, the loop sleeps once per frame, also for a frame of
\* unknown kind, and it returns to Reading; every frame read is dispatched.
C16_LoopGoesOn ==
  /\ [][C16_Order]_vars
  /\ (ppc = "decode" /\ C16_Decodable) ~> (ppc = "read")

\* A frame of unknown kind has gone through the cycle and the loop is back at
\* Reading after its second frame.
C16_Witness ==
  /\ ppc = "read"
  /\ nread = 2
  /\ proc = "running"
  /\ FrameKind \notin {CodeCo2, CodeTemperature}

\* ------------------------------------------------------------ C17

\* The permutation P of the reference transform.
C17_P == Bytes(<<2, 4, 0, 7, 1, 6, 5, 3>>)

\* "Htemp99e" with the two nibbles of every byte swapped.
C17_Swapped == Bytes(<<132, 71, 86, 214, 7, 147, 147, 86>>)

\* Bit n of a.
C17_Bit(a, n) == (a \div (2 ^ n)) % 2

\* a XOR b, bit by bit.
C17_Xor(a, b) ==
  ((C17_Bit(a, 0) + C17_Bit(b, 0)) % 2)
    + 2 * ((C17_Bit(a, 1) + C17_Bit(b, 1)) % 2)
    + 4 * ((C17_Bit(a, 2) + C17_Bit(b, 2)) % 2)
    + 8 * ((C17_Bit(a, 3) + C17_Bit(b, 3)) % 2)
    + 16 * ((C17_Bit(a, 4) + C17_Bit(b, 4)) % 2)
    + 32 * ((C17_Bit(a, 5) + C17_Bit(b, 5)) % 2)
    + 64 * ((C17_Bit(a, 6) + C17_Bit(b, 6)) % 2)
    + 128 * ((C17_Bit(a, 7) + C17_Bit(b, 7)) % 2)

\* De-shuffle: output position P[i] receives input byte i.  P is its own
\* inverse, so position j receives input byte P[j].
C17_Deshuffle(in) == [j \in Idx |-> in[C17_P[j]]]

\* The rotate-mix: the high five bits of x[i] move down and the low three bits
\* of x[i-1] move to the top.
C17_Rotate(x) ==
  [i \in Idx |-> (x[i] \div 8) + 32 * (x[(i + 7) % 8] % 8)]

\* The four stages of the reference transform.
C17_Reference(in, k) ==
  LET x == C17_Deshuffle(in)
      y == [i \in Idx |-> C17_Xor(x[i], k[i])]
      z == C17_Rotate(y)
  IN  [i \in Idx |-> (z[i] - C17_Swapped[i]) % 256]

\* C17: for every raw frame and every key decryptReading returns the result
\* of the reference transform (de-shuffle with P, XOR with the key, rotate-mix,
\* subtraction modulo 256 of the nibble-swapped "Htemp99e"), and every output
\* byte is in 0..255.
C17_DecodeIsReference ==
  tv.stage = "decoded" =>
    /\ \A i \in Idx : C17_Deshuffle(tv.wire)[C17_P[i]] = tv.wire[i]
    /\ tv.out = C17_Reference(tv.wire, tv.key)
    /\ \A i \in Idx : tv.out[i] \in 0 .. 255

\* A frame has been decoded under a key with mixed bits where the rotate-mix
\* carries bits across bytes and the subtraction wraps.
C17_Witness ==
  /\ tv.stage = "decoded"
  /\ tv.key = Bytes(<<165, 60, 255, 0, 129, 126, 16, 239>>)
  /\ \E i \in Idx :
       LET y == Phase2(Phase1(tv.wire), tv.key)
       IN  /\ y[(i + 7) % 8] % 8 # 0
           /\ Phase3(y)[i] < C17_Swapped[i]
  /\ tv.out = C17_Reference(tv.wire, tv.key)

\* ------------------------------------------------------------ C18

\* The poll loop is decoding or dispatching the buffer, or sleeping after it.
C18_Processing == ppc \notin {"off", "read", "stopped"}

\* The frames of the device, by decryption mode and session key.
C18_Frames == [skip \in BOOLEAN, k \in Keys |-> RawFrames(skip, k)]

\* The buffer holds the 8 bytes of one frame of the device.
C18_WholeFrame ==
  /\ got = 0
  /\ key \in Keys
  /\ buffer \in C18_Frames[skipDecryption, key]

\* C18: every frame that is decoded or dispatched is 8 bytes of one completed
\* read: a read that has delivered fewer than 8 bytes is continued until the
\* frame is complete or the read fails, and a buffer that mixes bytes of the
\* current read with bytes of the previous frame is never decoded or
\* dispatched.
C18_Step ==
  /\ (ppc = "read" /\ ppc' # ppc => ppc' = "decode" /\ C18_WholeFrame')
  /\ (C18_Processing => got = 0 /\ UNCHANGED << buffer, got >>)
  /\ (C18_Processing' /\ ~ C18_Processing => ppc = "read")
  /\ (got > 0 =>
        \/ ppc' = "read" /\ proc' = "running" /\ UNCHANGED << buffer, got, nread >>
        \/ ppc' = "read" /\ proc' = "failed" /\ UNCHANGED << got, nread, code, value >>
        \/ /\ ppc' = "decode" /\ nread' = nread + 1 /\ got' = 0
           /\ \A i \in Idx : i < got => buffer'[i] = buffer[i])
  /\ (code' # code \/ value' # value =>
        \/ ppc = "sleep"
        \/ /\ ppc = "decode" /\ C18_WholeFrame
           /\ code' = Plain(buffer)[0]
           /\ value' = Uint16(Plain(buffer)))

C18_WholeFramesOnly == [][C18_Step]_vars

\* A read has delivered 5 bytes of the second frame: the buffer mixes them
\* with the last 3 bytes of the first frame and the loop is still reading.
C18_Witness ==
  /\ proc = "running"
  /\ ppc = "read"
  /\ nread = 1
  /\ got = 5
  /\ buffer \notin C18_Frames[skipDecryption, key]
  /\ \E f \in C18_Frames[skipDecryption, key] : \A i \in Idx : i < got => buffer[i] = f[i]

\* ------------------------------------------------------------ C19

\* C19: the session key is not modified once it is generated: the handshake
\* and the decode calls leave it alone, and the key of every decode is the
\* key whose 8 bytes the device received in the handshake report.
C19_Step ==
  /\ (mpc \notin {"open", "rand"} => key' = key /\ key \in Keys)
  /\ (key' # key => mpc = "rand" /\ ~ armed /\ ppc = "off")
  /\ (armed => deviceKey' = deviceKey /\ deviceKey = key)
  /\ (armed' => \A i \in Idx : deviceKey'[i] = key'[i])
  /\ (ppc = "decode" /\ ppc' # ppc =>
        /\ armed /\ deviceKey = key /\ key' = key
        /\ (ppc' = "dispatch" /\ ~ skipDecryption =>
              /\ code' = decryptReading(buffer, deviceKey)[0]
              /\ value' = Uint16(decryptReading(buffer, deviceKey))))

C19_KeyStable == [][C19_Step]_vars

\* The second frame has been decoded, with the key the device received.
C19_Witness ==
  /\ ~ skipDecryption
  /\ ppc = "dispatch"
  /\ nread = 2
  /\ key = Bytes(<<165, 60, 255, 0, 129, 126, 16, 239>>)
  /\ deviceKey = key
  /\ code = CodeTemperature
  /\ dispatched.co2

\* ------------------------------------------------------------ C20

\* The logger is inside Co2() or Temperature() and holds read access.
C20_Reading == lpc \in {"co2Load", "co2RUnlock", "tLoad", "tRUnlock"}

\* The lock is held by exactly the calls that are between their acquire and
\* their release: whoever has returned has released.
C20_Released ==
  /\ rw.readers = (IF impl = "rwmutex" /\ C20_Reading THEN 1 ELSE 0)
  /\ (rw.writer = "held" <=> impl = "rwmutex" /\ ppc \in {"setStore", "setUnlock"})
  /\ (rw.writer = "pending" <=> impl = "rwmutex" /\ ppc = "setWait")
  /\ ~ (rw.writer = "held" /\ rw.readers > 0)

\* C20: in the lock-based state object every getter and setter releases the
\* lock before it returns, and no call waits for the lock for ever: while the
\* process lives, every started getter call and every started setter call
\* completes, also after the poll loop has stopped.
C20_NoDeadlock ==
  /\ []C20_Released
  /\ (impl = "rwmutex" /\ lpc \in {"co2RLock", "tRLock"})
        ~> (lpc = "log" \/ proc = "failed")
  /\ (impl = "rwmutex" /\ ppc = "setLock") ~> (ppc = "sleep")

\* The poll loop has stopped at an invalid frame, and after that the logger
\* has gone through both getters.
C20_Witness ==
  /\ impl = "rwmutex"
  /\ ppc = "stopped"
  /\ lpc = "log"
  /\ lco2 = 527
  /\ co2 = 527
  /\ co2Gauge = 0
  /\ rw = [writer |-> "free", readers |-> 0]

====
